---- MODULE Spec2Model ----
(***************************************************************************)
(* A model of src/main.py: the FeedzaiChallenge object (CSV files read     *)
(* into DataFrames, DataFrames written to tables of an SQLite database     *)
(* file, two SQL queries exported to CSV files) and the __main__ script    *)
(* that drives it.                                                         *)
(*                                                                         *)
(* Dates are day numbers of the year 2024 (1 = 2024-01-01, a Monday).  The *)
(* code keeps them as 'YYYY-MM-DD' text and compares them as text, which   *)
(* orders well-formed dates as the day numbers do.  `worked` is an integer *)
(* multiple of 10, so that (worked/1000.0)*100.0 is a whole number of      *)
(* dollars and the floating-point sum is exact.                            *)
(***************************************************************************)
EXTENDS Integers, Sequences, FiniteSets, TLC

VARIABLES
    csv,        \* the CSV source files: table name -> rows
    dfs,        \* self.dfs: table name -> DataFrame (rows), names read so far
    db,         \* the database file: table name -> rows, tables that exist
    out,        \* the output files: path -> rows, files that exist
    conn,       \* self.conn: "none" (no object), "open", "closed"
    pc,         \* position of the __main__ script ("api": no script)
    run,        \* number of the current run of the script
    err,        \* the call of this run that raised first, "none" if none
    prev,       \* the output files left by the last run that completed
    last,       \* the last call made on the object and whether it raised
    pre,        \* the database file as it was before the last call
    tieBreak    \* how the SQL engine orders rows that tie in an ORDER BY

vars == <<csv, dfs, db, out, conn, pc, run, err, prev, last, pre, tieBreak>>

----------------------------------------------------------------------------
(* Bounds *)

MaxRuns == 2          \* processes (runs of the script) in one behaviour
MaxRows == 2          \* rows of a CSV file of the script's runs
MaxWorkRows == 2      \* rows of work_hours.csv when the queries are examined
MaxTimeOffRows == 2   \* rows of time_off.csv when the queries are examined

Tables == {"time_off", "work_hours"}
Paths == {"acumulated_actual_costs", "project_utilization"}

\* 2024-01-26 (Fri), 2024-01-31 (Wed), 2024-02-01 (Thu): a span over a
\* weekend and over a month boundary.
InputDates == {26, 31, 32}
Employees == {1, 2}
Projects == {1, 2}

Name(e) == IF e = 1 THEN "A" ELSE "B"

WorkRows(E, P, D) ==
    [employee_id : E, project_id : P, date : D, worked : {8000}]

TimeOffRows(E, D) ==
    {r \in [employee_id : E, employee_name : {"A", "B"},
            date_start : D, date_end : D] :
        r.employee_name = Name(r.employee_id) /\ r.date_start <= r.date_end}

SeqsUpTo(S, n) == UNION {[1..k -> S] : k \in 0..n}

NoTables == [t \in {} |-> <<>>]

----------------------------------------------------------------------------
(* Helpers *)

\* The sequence of the elements of S in the strict total order R, a set of
\* pairs <<y, x>> with y before x.
Sorted(S, R) ==
    [k \in 1..Cardinality(S) |->
        CHOOSE x \in S : Cardinality({y \in S : <<y, x>> \in R}) = k - 1]

\* strftime('%w', d): 0 is Sunday, 6 is Saturday.
DayOfWeek(d) == d % 7

\* strftime('%Y-%m', d), within 2024 (a leap year).
work_month(d) == IF d <= 31 THEN 1 ELSE IF d <= 60 THEN 2 ELSE 3

----------------------------------------------------------------------------
(* Query 1: accumulated actual cost *)

\* (worked/1000.0)*100.0
Cost(w) == (w * 100) \div 1000

\* SUM((worked/1000.0)*100.0) over the rows I of t
RECURSIVE SumCost(_, _)
SumCost(t, I) ==
    IF I = {} THEN 0
    ELSE LET i == CHOOSE x \in I : TRUE
         IN  Cost(t[i].worked) + SumCost(t, I \ {i})

\* Row j comes before row i among rows with equal dates: SQL leaves that
\* order to the engine.
TieBefore(tb, j, i) == IF tb = "insertion" THEN j < i ELSE j > i

\* PARTITION BY project_id ORDER BY date
Precedes(t, tb, j, i) ==
    /\ t[j].project_id = t[i].project_id
    /\ \/ t[j].date < t[i].date
       \/ t[j].date = t[i].date /\ TieBefore(tb, j, i)

\* ROWS BETWEEN UNBOUNDED PRECEDING AND CURRENT ROW
Frame(t, tb, i) == {j \in 1..Len(t) : j = i \/ Precedes(t, tb, j, i)}

query_1(t, tb) ==
    LET before ==
            {p \in (1..Len(t)) \X (1..Len(t)) :
                \/ t[p[1]].project_id < t[p[2]].project_id
                \/ Precedes(t, tb, p[1], p[2])}
        order == Sorted(1..Len(t), before)
    IN  [k \in 1..Len(t) |->
            [project_id |-> t[order[k]].project_id,
             date |-> t[order[k]].date,
             total_accumulated_cost |-> SumCost(t, Frame(t, tb, order[k]))]]

----------------------------------------------------------------------------
(* Query 2: project utilization *)

\* SELECT date FROM work_hours UNION SELECT date_start FROM time_off
\* UNION SELECT date_end FROM time_off
max_min(wh, to) ==
    {wh[i].date : i \in 1..Len(wh)}
        \cup {to[i].date_start : i \in 1..Len(to)}
        \cup {to[i].date_end : i \in 1..Len(to)}

Min(S) == CHOOSE x \in S : \A y \in S : x <= y
Max(S) == CHOOSE x \in S : \A y \in S : y <= x

\* Every day from min(date) to max(date), one day at a time; of empty tables
\* the only row is NULL, which the weekday filter drops.
DateRange(wh, to) ==
    IF max_min(wh, to) = {} THEN {}
    ELSE Min(max_min(wh, to)) .. Max(max_min(wh, to))

\* WHERE strftime('%w', Date) NOT IN ('0', '6')
all_working_days(wh, to) ==
    {d \in DateRange(wh, to) : DayOfWeek(d) \notin {0, 6}}

\* time_off t CROSS JOIN all_working_days d
\* WHERE d.Date < t.date_start OR d.Date > t.date_end
AvailablePairs(wh, to) ==
    {p \in (1..Len(to)) \X all_working_days(wh, to) :
        p[2] < to[p[1]].date_start \/ p[2] > to[p[1]].date_end}

\* GROUP BY employee_id, employee_name, work_month; count(d.Date)*8 as hours
available_work_hours_per_user(wh, to) ==
    LET pairs == AvailablePairs(wh, to)
        Key(p) == <<to[p[1]].employee_id, to[p[1]].employee_name,
                    work_month(p[2])>>
    IN  {[employee_id |-> k[1], employee_name |-> k[2], work_month |-> k[3],
          hours |-> Cardinality({p \in pairs : Key(p) = k}) * 8] :
            k \in {Key(p) : p \in pairs}}

RECURSIVE SumWorked(_, _)
SumWorked(t, I) ==
    IF I = {} THEN 0
    ELSE LET i == CHOOSE x \in I : TRUE
         IN  t[i].worked + SumWorked(t, I \ {i})

\* GROUP BY employee_id, work_month, project_id; worked_total is kept as
\* sum(worked), in thousandths of an hour (the code divides it by 1000.0).
worked_hours_by_month_by_project_by_employee(wh) ==
    LET Key(i) == <<wh[i].employee_id, work_month(wh[i].date),
                    wh[i].project_id>>
    IN  {[employee_id |-> k[1], work_month |-> k[2], project_id |-> k[3],
          worked_total |->
              SumWorked(wh, {i \in 1..Len(wh) : Key(i) = k})] :
            k \in {Key(i) : i \in 1..Len(wh)}}

\* The rows come in the order of the groups of work_hours; the percentage
\* 100.0*worked_total/hours is kept as the exact fraction <<num, den>>.
query_2(wh, to) ==
    LET joined ==
            {<<w, a>> \in worked_hours_by_month_by_project_by_employee(wh)
                          \X available_work_hours_per_user(wh, to) :
                a.employee_id = w.employee_id /\ a.work_month = w.work_month}
        KeyLess(x, y) ==
            LET k == <<x[1].employee_id, x[1].work_month, x[1].project_id,
                       IF x[2].employee_name = "A" THEN 1 ELSE 2>>
                l == <<y[1].employee_id, y[1].work_month, y[1].project_id,
                       IF y[2].employee_name = "A" THEN 1 ELSE 2>>
            IN  \E n \in 1..4 : k[n] < l[n] /\ \A m \in 1..(n-1) : k[m] = l[m]
        order == Sorted(joined,
                        {p \in joined \X joined : KeyLess(p[1], p[2])})
    IN  [n \in 1..Cardinality(joined) |->
            [employee_name |-> order[n][2].employee_name,
             work_month |-> order[n][2].work_month,
             project_id |-> order[n][1].project_id,
             project_utilization_percent |->
                 <<100 * order[n][1].worked_total,
                   1000 * order[n][2].hours>>]]

----------------------------------------------------------------------------
(* The FeedzaiChallenge object *)

Call(op, arg, raised) == [op |-> op, arg |-> arg, raised |-> raised]

\* sqlite3.connect opens the database file, creating it when absent: the
\* tables an earlier process left in it are still there.  When the directory
\* or the file cannot be opened (ok = FALSE) there is no object.
Construct(ok) ==
    /\ conn' = IF ok THEN "open" ELSE "none"
    /\ dfs' = NoTables
    /\ last' = Call("__init__", "", ~ok)
    /\ pre' = db
    /\ UNCHANGED <<db, out>>

\* The files are read in the order of the dictionary; the first that cannot
\* be read (files[failAt], none when failAt = 0) ends the loop.
read_csv_files(files, failAt) ==
    LET n == IF failAt = 0 THEN Len(files) ELSE failAt - 1
        got == {files[i] : i \in 1..n}
    IN  /\ dfs' = [t \in DOMAIN dfs \cup got |->
                      IF t \in got THEN csv[t] ELSE dfs[t]]
        /\ last' = Call("read_csv_files",
                        IF failAt = 0 THEN "" ELSE files[failAt],
                        failAt # 0)
        /\ pre' = db
        /\ UNCHANGED <<db, out, conn>>

\* self.dfs[table_name] raises KeyError for a name that was not read.
KeyErrorNever(d, name) == FALSE

KeyError(d, name) == name \notin DOMAIN d

\* to_sql(..., if_exists='replace'): the table is dropped and created anew.
to_sql_append(d, name, rows) ==
    [t \in DOMAIN d \cup {name} |->
        IF t = name
        THEN (IF name \in DOMAIN d THEN d[name] ELSE <<>>) \o rows
        ELSE d[t]]

to_sql(d, name, rows) ==
    [t \in DOMAIN d \cup {name} |-> IF t = name THEN rows ELSE d[t]]

DropTable(d, name) == [t \in DOMAIN d \ {name} |-> d[t]]

\* What a to_sql that raises may leave of the table: nothing done, the old
\* table dropped, or the new table created and still empty.
LoadResults == {"ok", "failed", "failed_dropped", "failed_empty"}

load_data(table_name, res) ==
    LET noFrame == KeyError(dfs, table_name)
        closed == conn # "open"
        rows == IF table_name \in DOMAIN dfs THEN dfs[table_name] ELSE <<>>
    IN  /\ db' = IF noFrame \/ closed \/ res = "failed" THEN db
                 ELSE IF res = "failed_dropped" THEN DropTable(db, table_name)
                 ELSE IF res = "failed_empty" THEN to_sql(db, table_name, <<>>)
                 ELSE to_sql(db, table_name, rows)
        /\ last' = Call("load_data", table_name,
                        noFrame \/ closed \/ res # "ok")
        /\ pre' = db
        /\ UNCHANGED <<dfs, out, conn>>

QueryTables(q) == IF q = 1 THEN {"work_hours"} ELSE Tables

\* read_sql_query raises on a closed connection or a missing table, to_csv on
\* a path it cannot write (writable = FALSE); the file is then left as it was.
query_data(q, output_path, writable) ==
    LET ok == conn = "open" /\ QueryTables(q) \subseteq DOMAIN db /\ writable
        result == IF q = 1 THEN query_1(db["work_hours"], tieBreak)
                  ELSE query_2(db["work_hours"], db["time_off"])
    IN  /\ out' = IF ok
                  THEN [p \in DOMAIN out \cup {output_path} |->
                           IF p = output_path THEN result ELSE out[p]]
                  ELSE out
        /\ last' = Call("query_data", output_path, ~ok)
        /\ pre' = db
        /\ UNCHANGED <<dfs, db, conn>>

\* Closing a connection that is closed already does nothing.
close_connection(ok) ==
    /\ conn' = IF ok THEN "closed" ELSE conn
    /\ last' = Call("close_connection", "", ~ok)
    /\ pre' = db
    /\ UNCHANGED <<dfs, db, out>>

----------------------------------------------------------------------------
(* The __main__ script *)

\* Every method prints and re-raises; the script catches nothing, so an
\* exception ends the process.
AfterSwallowed(raised, next) == next

After(raised, next) == IF raised THEN "failed" ELSE next

Step(from, to) ==
    /\ pc = from
    /\ pc' = After(last'.raised, to)
    /\ err' = IF err = "none" /\ last'.raised THEN last'.op ELSE err
    /\ UNCHANGED <<csv, run, prev, tieBreak>>

MainInit ==
    /\ \E ok \in BOOLEAN : Construct(ok)
    /\ Step("start", "read")

MainRead ==
    /\ \E failAt \in 0..2 :
          read_csv_files(<<"time_off", "work_hours">>, failAt)
    /\ Step("read", "load_work_hours")

MainLoadWorkHours ==
    /\ \E res \in LoadResults : load_data("work_hours", res)
    /\ Step("load_work_hours", "load_time_off")

MainLoadTimeOff ==
    /\ \E res \in LoadResults : load_data("time_off", res)
    /\ Step("load_time_off", "query_1")

MainQuery1 ==
    /\ \E w \in BOOLEAN : query_data(1, "acumulated_actual_costs", w)
    /\ Step("query_1", "query_2")

MainQuery2 ==
    /\ \E w \in BOOLEAN : query_data(2, "project_utilization", w)
    /\ Step("query_2", "close")

MainClose ==
    /\ \E ok \in BOOLEAN : close_connection(ok)
    /\ Step("close", "done")

\* The process has ended; the script is started again on the same files.
Rerun ==
    /\ pc \in {"done", "failed"}
    /\ run < MaxRuns
    /\ pc' = "start"
    /\ run' = run + 1
    /\ err' = "none"
    /\ prev' = IF pc = "done" THEN [set |-> TRUE, files |-> out] ELSE prev
    /\ conn' = "none"
    /\ dfs' = NoTables
    /\ last' = Call("exit", "", FALSE)
    /\ pre' = db
    /\ UNCHANGED <<csv, db, out, tieBreak>>

RunStep ==
    \/ MainInit
    \/ MainRead
    \/ MainLoadWorkHours
    \/ MainLoadTimeOff
    \/ MainQuery1
    \/ MainQuery2
    \/ MainClose

Next == RunStep \/ Rerun

\* No process has run: the database and the output files do not exist.
InitWith(files, ties) ==
    /\ csv \in files
    /\ dfs = NoTables
    /\ db = NoTables
    /\ out = NoTables
    /\ conn = "none"
    /\ run = 1
    /\ err = "none"
    /\ prev = [set |-> FALSE, files |-> NoTables]
    /\ last = Call("exit", "", FALSE)
    /\ pre = NoTables
    /\ tieBreak \in ties

RunFiles ==
    [work_hours : SeqsUpTo(WorkRows({1}, {1}, {31, 32}), MaxRows),
     time_off : SeqsUpTo(TimeOffRows({1}, {31}), MaxRows)]

TieBreaks == {"insertion", "reverse"}

Init == InitWith(RunFiles, TieBreaks) /\ pc = "start"

\* The script, run up to MaxRuns times on the same files.
Spec == Init /\ [][Next]_vars

QueryFiles ==
    [work_hours :
        SeqsUpTo(WorkRows(Employees, Projects, InputDates), MaxWorkRows),
     time_off : SeqsUpTo(TimeOffRows({1}, InputDates), MaxTimeOffRows)]

InitQuery == InitWith(QueryFiles, TieBreaks) /\ pc = "start"

\* One run of the script over the wider inputs the queries are examined on.
SpecQuery == InitQuery /\ [][RunStep]_vars

----------------------------------------------------------------------------
(* Calls on FeedzaiChallenge objects in any order *)

\* The contents the CSV files take: one or two work records, one time off.
ApiFiles ==
    [work_hours :
        {<<[employee_id |-> 1, project_id |-> 1, date |-> 31,
            worked |-> 8000]>>,
         <<[employee_id |-> 1, project_id |-> 1, date |-> 31,
            worked |-> 8000],
           [employee_id |-> 1, project_id |-> 1, date |-> 32,
            worked |-> 8000]>>},
     time_off : [{1} -> TimeOffRows({1}, {31})]]

\* The dictionaries read_csv_files may be given: names in any order.
FileLists ==
    {<<>>, <<"time_off">>, <<"work_hours">>,
     <<"time_off", "work_hours">>, <<"work_hours", "time_off">>}

PathOf(q) == IF q = 1 THEN "acumulated_actual_costs" ELSE "project_utilization"

Api(call) ==
    /\ pc = "api"
    /\ conn # "none"
    /\ call
    /\ UNCHANGED <<csv, pc, run, err, prev, tieBreak>>

\* The next process constructs an object on the database file as it is.
ApiConstruct ==
    /\ pc = "api"
    /\ last.op = "exit" \/ run < MaxRuns
    /\ \E ok \in BOOLEAN : Construct(ok)
    /\ run' = IF last.op = "exit" THEN run ELSE run + 1
    /\ UNCHANGED <<csv, pc, err, prev, tieBreak>>

ApiRead ==
    \E files \in FileLists : \E failAt \in 0..Len(files) :
        Api(read_csv_files(files, failAt))

ApiLoad ==
    \E t \in Tables : \E res \in LoadResults : Api(load_data(t, res))

ApiQuery ==
    \E q \in {1, 2} : \E w \in BOOLEAN : Api(query_data(q, PathOf(q), w))

ApiClose == \E ok \in BOOLEAN : Api(close_connection(ok))

\* The CSV files are rewritten between calls.
EditCsv ==
    /\ pc = "api"
    /\ csv' \in ApiFiles
    /\ UNCHANGED <<dfs, db, out, conn, pc, run, err, prev, last, pre,
                   tieBreak>>

ApiNext ==
    \/ ApiConstruct
    \/ ApiRead
    \/ ApiLoad
    \/ ApiQuery
    \/ ApiClose
    \/ EditCsv

\* No two rows of these files tie on a date.
InitApi == InitWith(ApiFiles, {"insertion"}) /\ pc = "api"

SpecApi == InitApi /\ [][ApiNext]_vars

----------------------------------------------------------------------------
(* Properties *)

Costs == "acumulated_actual_costs"
Utilization == "project_utilization"

\* The last call was the query written to path, and it did not raise.
Wrote(path) == last = Call("query_data", path, FALSE)

RowsOf(t) == {t[i] : i \in 1..Len(t)}

IdOf(name) == CHOOSE e \in Employees : Name(e) = name

\* The weekdays of month m in the span that lie in no time off of employee e.
FreeDays(wh, to, e, m) ==
    {d \in all_working_days(wh, to) :
        /\ work_month(d) = m
        /\ \A i \in 1..Len(to) :
              to[i].employee_id = e =>
                  ~(to[i].date_start <= d /\ d <= to[i].date_end)}

HasTimeOff(to, e) == \E i \in 1..Len(to) : to[i].employee_id = e

\* C1: the available hours Query B divides by are 8 times the number of
\* weekdays of the month, in the span, inside none of the employee's time-off
\* intervals, each weekday counted once however many time-off rows there are.
C1_AvailableHoursCountEachDayOnce ==
    Wrote(Utilization) =>
        \A r \in RowsOf(out[Utilization]) :
            r.project_utilization_percent[2] =
                1000 * 8 * Cardinality(FreeDays(db["work_hours"],
                                                db["time_off"],
                                                IdOf(r.employee_name),
                                                r.work_month))

\* C2: Query A writes exactly one row for each distinct (project_id, date) of
\* work_hours, so no two rows share a (project_id, date).
C2_OneRowPerProjectDate ==
    Wrote(Costs) =>
        LET rows == out[Costs]
            keys == {<<w.project_id, w.date>> : w \in RowsOf(db["work_hours"])}
        IN  /\ Len(rows) = Cardinality(keys)
            /\ \A i, j \in 1..Len(rows) :
                  (rows[i].project_id = rows[j].project_id
                      /\ rows[i].date = rows[j].date) => i = j

\* C3: a run that ends because read_csv_files, load_data or query_data raised
\* has closed the connection.
C3_ConnectionClosedOnFailure ==
    (pc = "failed" /\ err \in {"read_csv_files", "load_data", "query_data"})
        => conn = "closed"

\* C4: an employee with work records and no time-off row has a row in the
\* Query B output for each (month, project) worked.
C4_NoTimeOffStillListed ==
    Wrote(Utilization) =>
        \A w \in RowsOf(db["work_hours"]) :
            ~HasTimeOff(db["time_off"], w.employee_id) =>
                \E r \in RowsOf(out[Utilization]) :
                    /\ r.employee_name = Name(w.employee_id)
                    /\ r.work_month = work_month(w.date)
                    /\ r.project_id = w.project_id

\* C5: when Query B ends without an error, the work records of an employee
\* and month whose weekdays are all covered by the employee's time off still
\* have their row in the output.
C5_ZeroAvailableNotDropped ==
    Wrote(Utilization) =>
        \A w \in RowsOf(db["work_hours"]) :
            (/\ HasTimeOff(db["time_off"], w.employee_id)
             /\ FreeDays(db["work_hours"], db["time_off"], w.employee_id,
                         work_month(w.date)) = {})
                => \E r \in RowsOf(out[Utilization]) :
                      /\ r.employee_name = Name(w.employee_id)
                      /\ r.work_month = work_month(w.date)
                      /\ r.project_id = w.project_id

RECURSIVE SumAll(_)
SumAll(S) ==
    IF S = {} THEN 0
    ELSE LET x == CHOOSE y \in S : TRUE IN x[2] + SumAll(S \ {x})

\* The sum of worked over the rows of project p.
ProjectWorked(wh, p) ==
    SumAll({<<i, wh[i].worked>> : i \in {j \in 1..Len(wh) :
                                            wh[j].project_id = p}})

\* C6: every Query A row on a project's last date carries
\* 100 * (sum of worked over the project's rows) / 1000.
C6_LastDateCarriesProjectTotal ==
    Wrote(Costs) =>
        LET wh == db["work_hours"]
        IN  \A r \in RowsOf(out[Costs]) :
                (\A w \in RowsOf(wh) :
                    w.project_id = r.project_id => w.date <= r.date)
                    => r.total_accumulated_cost =
                           (100 * ProjectWorked(wh, r.project_id)) \div 1000

\* C7: after a load_data that did not raise, the table holds exactly the
\* rows of the DataFrame read from its CSV file, whatever it held before, and
\* every other table is as it was before the call.
C7_LoadReplacesTable ==
    (last.op = "load_data" /\ ~last.raised) =>
        /\ DOMAIN db = DOMAIN pre \cup {last.arg}
        /\ db[last.arg] = dfs[last.arg]
        /\ \A t \in DOMAIN pre \ {last.arg} : db[t] = pre[t]

\* A table that held other rows is replaced, beside another table.
C7_Witness ==
    /\ last.op = "load_data" /\ ~last.raised
    /\ last.arg \in DOMAIN pre
    /\ pre[last.arg] # <<>>
    /\ pre[last.arg] # dfs[last.arg]
    /\ DOMAIN pre # {last.arg}

\* C8: a run that completes on the database and output files an earlier
\* completed run left writes the same two output files.
C8_RerunSameOutput ==
    (pc = "done" /\ prev.set) => out = prev.files

C8_Witness ==
    /\ pc = "done" /\ prev.set
    /\ DOMAIN out = Paths
    /\ Len(out[Costs]) = 2
    /\ Len(out[Utilization]) = 1

\* C9: once a call of the run has raised, the run has ended as failed and
\* the call that raised is the last one made: no later stage ran.
C9_FailureEndsRun ==
    err # "none" =>
        /\ pc = "failed"
        /\ last.op = err
        /\ last.raised

\* load_data raised on the second table: the queries never ran.
C9_Witness ==
    /\ err = "load_data" /\ pc = "failed"
    /\ last.arg = "time_off"
    /\ "work_hours" \in DOMAIN db
    /\ out = NoTables

\* load_data of a name that was not read raises and changes no table.
UnreadLoadRaises ==
    (last.op = "load_data" /\ last.arg \notin DOMAIN dfs) =>
        last.raised /\ db = pre

====
